---- MODULE Spec2Model ----
(***************************************************************************)
(* Model of FileShareConstruct.createFileShare (src/constructs/            *)
(* file-share.ts): the walk of a local directory tree, the derivation of   *)
(* the remote directories, the classification of the files, the creation   *)
(* of the StorageShareDirectory / StorageShareFile constructs with their   *)
(* dependsOn edges, and a provisioning engine that applies the plan.       *)
(*                                                                         *)
(* A string is a sequence of one-character strings, so that path.join,     *)
(* path.dirname, path.relative, path.basename and String.replace are       *)
(* computed on characters as Node computes them (POSIX flavour).           *)
(***************************************************************************)
EXTENDS Integers, Sequences, FiniteSets, TLC

\* ---------------------------------------------------------------- bounds
\* deepest file below the root, counted in path segments (a/b/x is 3)
MaxDepth == 3
\* number of regular files in the tree
MaxFiles == 2

\* ------------------------------------------------------------ characters
Slash == "/"
Dot == <<".">>
DotDot == <<".", ".">>
DotSlash == <<".", "/">>
EmptyStr == <<>>

\* UTF-16 code units of the characters used, the order of Array.sort()
CharCode(c) ==
  CASE c = "." -> 46
    [] c = "/" -> 47
    [] c = "_" -> 95
    [] c = "a" -> 97
    [] c = "b" -> 98
    [] c = "d" -> 100
    [] c = "e" -> 101
    [] c = "f" -> 102
    [] c = "g" -> 103
    [] c = "i" -> 105
    [] c = "l" -> 108
    [] c = "m" -> 109
    [] c = "n" -> 110
    [] c = "o" -> 111
    [] c = "r" -> 114
    [] c = "t" -> 116
    [] c = "w" -> 119
    [] c = "x" -> 120
    [] c = "y" -> 121

\* s < t in the order of the default comparator of Array.prototype.sort
RECURSIVE StrLess(_, _)
StrLess(s, t) ==
  IF t = <<>> THEN FALSE
  ELSE IF s = <<>> THEN TRUE
  ELSE IF Head(s) = Head(t) THEN StrLess(Tail(s), Tail(t))
  ELSE CharCode(Head(s)) < CharCode(Head(t))

\* Array.from(set).sort()
RECURSIVE SortStrings(_)
SortStrings(S) ==
  IF S = {} THEN <<>>
  ELSE LET m == CHOOSE x \in S : \A y \in S \ {x} : StrLess(x, y)
       IN <<m>> \o SortStrings(S \ {m})

\* ------------------------------------------------------- node:path (posix)
\* the non-empty segments of s between separators, from index i on
RECURSIVE SplitFrom(_, _, _)
SplitFrom(s, i, cur) ==
  IF i > Len(s) THEN (IF cur = <<>> THEN <<>> ELSE <<cur>>)
  ELSE IF s[i] = Slash
       THEN (IF cur = <<>> THEN <<>> ELSE <<cur>>) \o SplitFrom(s, i + 1, <<>>)
       ELSE SplitFrom(s, i + 1, Append(cur, s[i]))

Segments(s) == SplitFrom(s, 1, <<>>)

\* segments joined with "/"
RECURSIVE JoinSegs(_)
JoinSegs(segs) ==
  IF segs = <<>> THEN <<>>
  ELSE IF Len(segs) = 1 THEN segs[1]
  ELSE segs[1] \o <<Slash>> \o JoinSegs(Tail(segs))

\* normalizeString: resolves "." and ".." segments
RECURSIVE NormSegs(_, _, _)
NormSegs(segs, acc, allowAboveRoot) ==
  IF segs = <<>> THEN acc
  ELSE LET h == Head(segs)
           t == Tail(segs)
       IN IF h = Dot THEN NormSegs(t, acc, allowAboveRoot)
          ELSE IF h = DotDot
               THEN IF acc # <<>> /\ acc[Len(acc)] # DotDot
                    THEN NormSegs(t, SubSeq(acc, 1, Len(acc) - 1), allowAboveRoot)
                    ELSE IF allowAboveRoot
                         THEN NormSegs(t, Append(acc, DotDot), allowAboveRoot)
                         ELSE NormSegs(t, acc, allowAboveRoot)
               ELSE NormSegs(t, Append(acc, h), allowAboveRoot)

IsAbsolute(p) == Len(p) > 0 /\ p[1] = Slash

\* path.normalize
PathNormalize(p) ==
  IF Len(p) = 0 THEN Dot
  ELSE LET isAbs == IsAbsolute(p)
           trailing == p[Len(p)] = Slash
           body == JoinSegs(NormSegs(Segments(p), <<>>, ~isAbs))
       IN IF body = <<>>
          THEN (IF isAbs THEN <<Slash>> ELSE IF trailing THEN DotSlash ELSE Dot)
          ELSE (IF isAbs THEN <<Slash>> ELSE <<>>) \o body
               \o (IF trailing THEN <<Slash>> ELSE <<>>)

\* path.join(a, b)
PathJoin(a, b) ==
  LET joined == IF Len(a) = 0 THEN b
                ELSE IF Len(b) = 0 THEN a
                ELSE a \o <<Slash>> \o b
  IN IF Len(joined) = 0 THEN Dot ELSE PathNormalize(joined)

\* index of the separator that ends the directory part, scanning from the
\* end and skipping trailing separators; 0 when there is none
RECURSIVE DirnameEnd(_, _, _)
DirnameEnd(p, i, matchedSlash) ==
  IF i < 2 THEN 0
  ELSE IF p[i] = Slash
       THEN (IF ~matchedSlash THEN i ELSE DirnameEnd(p, i - 1, matchedSlash))
       ELSE DirnameEnd(p, i - 1, FALSE)

\* path.dirname
PathDirname(p) ==
  IF Len(p) = 0 THEN Dot
  ELSE LET hasRoot == p[1] = Slash
           end == DirnameEnd(p, Len(p), TRUE)
       IN IF end = 0 THEN (IF hasRoot THEN <<Slash>> ELSE Dot)
          ELSE IF hasRoot /\ end = 2 THEN <<Slash, Slash>>
          ELSE SubSeq(p, 1, end - 1)

\* path.basename: the last segment, trailing separators ignored
PathBasename(p) ==
  LET segs == Segments(p)
  IN IF segs = <<>> THEN <<>> ELSE segs[Len(segs)]

\* process.cwd(), the directory relative paths resolve against
Cwd == <<Slash, "w">>

\* path.resolve(p) as the segments of the absolute path
ResolveSegs(p) ==
  IF IsAbsolute(p) THEN NormSegs(Segments(p), <<>>, FALSE)
  ELSE NormSegs(Segments(Cwd \o <<Slash>> \o p), <<>>, FALSE)

\* length of the longest common prefix of two segment sequences
RECURSIVE CommonLen(_, _)
CommonLen(a, b) ==
  IF a = <<>> \/ b = <<>> THEN 0
  ELSE IF Head(a) = Head(b) THEN 1 + CommonLen(Tail(a), Tail(b))
  ELSE 0

\* path.relative(from, to)
PathRelative(from, to) ==
  IF from = to THEN EmptyStr
  ELSE LET f == ResolveSegs(from)
           t == ResolveSegs(to)
           k == CommonLen(f, t)
           ups == [i \in 1..(Len(f) - k) |-> DotDot]
       IN JoinSegs(ups \o SubSeq(t, k + 1, Len(t)))

\* String.prototype.replace(/\//g, '_')
ReplaceSlashes(s) == [i \in 1..Len(s) |-> IF s[i] = Slash THEN "_" ELSE s[i]]


\* ------------------------------------------------------ the local file tree
\* entry names of the tree: directory names and file names
NameA == <<"a">>
NameAA == <<"a", "_", "a">>
DirNames == {NameA, NameAA}
FileNames == {<<"x">>, <<"y">>}
AllNames == DirNames \cup FileNames

\* the directory that props.localMountDir designates, as segments from "/"
RootSegs == << <<"m">> >>
\* spellings of props.localMountDir: normalized, and with a trailing separator
MountNormalized == <<Slash, "m">>
MountTrailing == <<Slash, "m", Slash>>
MountDirs == {MountNormalized, MountTrailing}

\* props.shareName of the first share
ShareName == <<"n", "g", "i", "n", "x">>

\* RemoteFile without a path property
Absent == <<"undefined">>

\* sequences of directory names of length 0..n
DirSeqs(n) == UNION {[1..k -> DirNames] : k \in 0..n}
\* paths of candidate files, relative to the root
FilePaths == {Append(d, f) : d \in DirSeqs(MaxDepth - 1), f \in FileNames}

\* subsets of S with at most k elements
RECURSIVE SubsetsUpTo(_, _)
SubsetsUpTo(S, k) ==
  IF k = 0 THEN {{}}
  ELSE LET prev == SubsetsUpTo(S, k - 1)
       IN prev \cup {T \cup {x} : T \in prev, x \in S}

\* directories that exist whether or not a file lives below them
ExtraDirChoices == {{}, {<<NameA>>}, {<<NameAA, NameA>>}}

\* every prefix of p, p included
Prefixes(p) == {SubSeq(p, 1, k) : k \in 0..Len(p)}
\* every proper prefix of p
Ancestors(p) == {SubSeq(p, 1, k) : k \in 0..(Len(p) - 1)}

VARIABLES
  fsFiles,          \* regular files of the file system, as segments from "/"
  fsDirs,           \* directories of the file system, as segments from "/"
  mountDir,         \* props.localMountDir
  pc,               \* position in createFileShare, then "planned" / "failed"
  err,              \* the error thrown out of createFileShare, "none" if none
  files,            \* const files = this.getAllFiles(...)
  directories,      \* const directories = this.getDirectories(...)
  shareDirectories, \* ids of the StorageShareDirectory constructs created
  rootFiles,        \* categorizeFiles(...).rootFiles
  subdirFiles,      \* categorizeFiles(...).subdirFiles
  idx,              \* index of the element the current map/forEach is at
  children,         \* constructs added to this scope, in creation order
  started,          \* ids of resources whose creation the engine has begun
  completed,        \* ids of resources whose creation has completed
  fsDenied,         \* directories that fs.readdirSync fails to read (EACCES)
  shareName,        \* props.shareName
  pending,          \* the createFileShare calls the constructor has yet to make
  prevPlan,         \* the plan of the previous run of the program, if any
  config,           \* ContainerAppEnvConfig passed to createWorkerApiEnvVars
  isApi,            \* the isApi argument of createWorkerApiEnvVars
  envPc,            \* position in createWorkerApiEnvVars
  baseEnvVars,      \* const baseEnvVars
  kvPolicyCounter,  \* private kvPolicyCounter
  kvPolicies,       \* the KeyVaultAccessPolicyA constructs, in creation order
  kvErr             \* the error thrown out of addKeyVaultAccess, "none" if none

kvVars == <<kvPolicyCounter, kvPolicies, kvErr>>

acaVars == <<config, isApi, envPc, baseEnvVars, kvVars>>

vars == <<fsFiles, fsDirs, mountDir, pc, err, files, directories,
          shareDirectories, rootFiles, subdirFiles, idx, children,
          started, completed, fsDenied, shareName, pending, prevPlan, acaVars>>

fsVars == <<fsFiles, fsDirs, mountDir, fsDenied>>

\* what the steps inside one createFileShare call leave alone
ctxVars == <<shareName, pending, prevPlan, acaVars>>

\* ------------------------------------------------------------------ node:fs
\* fs.statSync(p): what p designates
StatKind(p) ==
  LET s == ResolveSegs(p)
  IN IF s \in fsDirs THEN "dir" ELSE IF s \in fsFiles THEN "file" ELSE "none"

\* the error fs.readdirSync(p) throws, "none" if it returns
ReaddirError(p) ==
  CASE StatKind(p) = "dir" /\ ResolveSegs(p) \in fsDenied -> "EACCES"
    [] StatKind(p) = "dir" /\ ResolveSegs(p) \notin fsDenied -> "none"
    [] StatKind(p) = "file" -> "ENOTDIR"
    [] OTHER -> "ENOENT"

\* fs.readdirSync(p): the entry names of directory p, in the order ord
ReaddirSync(p, ord) ==
  LET s == ResolveSegs(p)
  IN SelectSeq(ord, LAMBDA n : Append(s, n) \in fsFiles \cup fsDirs)

\* the orders in which the file system may enumerate entries
RECURSIVE Perms(_)
Perms(S) ==
  IF S = {} THEN {<<>>}
  ELSE UNION {{<<x>> \o p : p \in Perms(S \ {x})} : x \in S}

\* the entry names that occur below the root
EntryNames ==
  {n \in AllNames : \E p \in fsFiles \cup fsDirs :
                      \E i \in (Len(RootSegs) + 1)..Len(p) : p[i] = n}

ReaddirOrders == Perms(EntryNames)

\* ------------------------------------------------------- FileShareConstruct
\* getAllFiles: the loop over items, and the method
RECURSIVE getAllFiles(_, _), WalkItems(_, _, _), WalkItemsEmptyDirAsFile(_, _, _),
          WalkItemsReturnAtDirectory(_, _, _), WalkItemsNoRecursion(_, _, _)

\* WalkItems, except that the loop returns with the files of the first
\* directory it meets
WalkItemsReturnAtDirectory(dir, items, ord) ==
  IF items = <<>> THEN <<>>
  ELSE LET fullPath == PathJoin(dir, Head(items))
       IN IF StatKind(fullPath) = "dir"
          THEN getAllFiles(fullPath, ord)
          ELSE <<fullPath>> \o WalkItemsReturnAtDirectory(dir, Tail(items), ord)

\* WalkItems, except that a directory is pushed instead of being entered
WalkItemsNoRecursion(dir, items, ord) ==
  IF items = <<>> THEN <<>>
  ELSE <<PathJoin(dir, Head(items))>> \o WalkItemsNoRecursion(dir, Tail(items), ord)

\* WalkItems, except that a directory without entries is pushed as a file
WalkItemsEmptyDirAsFile(dir, items, ord) ==
  IF items = <<>> THEN <<>>
  ELSE LET fullPath == PathJoin(dir, Head(items))
       IN (IF StatKind(fullPath) = "dir" /\ ReaddirSync(fullPath, ord) # <<>>
           THEN getAllFiles(fullPath, ord)
           ELSE <<fullPath>>)
          \o WalkItemsEmptyDirAsFile(dir, Tail(items), ord)

WalkItems(dir, items, ord) ==
  IF items = <<>> THEN <<>>
  ELSE LET fullPath == PathJoin(dir, Head(items))
       IN (IF StatKind(fullPath) = "dir"
           THEN getAllFiles(fullPath, ord)
           ELSE <<fullPath>>)
          \o WalkItems(dir, Tail(items), ord)

getAllFiles(dir, ord) == WalkItems(dir, ReaddirSync(dir, ord), ord)

\* getAllFiles, except that an error below the directory it is called on
\* is caught
getAllFilesErrorCaughtBelow(dir, ord) == ReaddirError(dir)

\* the first error that getAllFiles(dir) throws, "none" if it returns
RECURSIVE getAllFilesError(_, _), WalkItemsError(_, _, _)
WalkItemsError(dir, items, ord) ==
  IF items = <<>> THEN "none"
  ELSE LET fullPath == PathJoin(dir, Head(items))
           e == IF StatKind(fullPath) = "dir"
                THEN getAllFilesError(fullPath, ord)
                ELSE "none"
       IN IF e # "none" THEN e ELSE WalkItemsError(dir, Tail(items), ord)

getAllFilesError(dir, ord) ==
  IF ReaddirError(dir) # "none" THEN ReaddirError(dir)
  ELSE WalkItemsError(dir, ReaddirSync(dir, ord), ord)

\* elements of a sequence
Range(s) == {s[i] : i \in 1..Len(s)}

\* s with x inserted before the first element that is not below x
RECURSIVE InsertSorted(_, _)
InsertSorted(s, x) ==
  IF s = <<>> THEN <<x>>
  ELSE IF StrLess(Head(s), x) THEN <<Head(s)>> \o InsertSorted(Tail(s), x)
  ELSE <<x>> \o s

RECURSIVE SortStringSeq(_)
SortStringSeq(s) == IF s = <<>> THEN <<>> ELSE InsertSorted(SortStringSeq(Tail(s)), Head(s))

\* getDirectories, except that "." is not excluded
getDirectoriesKeepDot(fl, mount) ==
  LET dirOf(file) == PathDirname(PathRelative(mount, file))
      set == {dirOf(fl[i]) : i \in 1..Len(fl)}
      kept == {d \in set : d # EmptyStr /\ d # mount}
  IN SortStrings(kept)

\* getDirectories, except that the directories are collected in an array
getDirectoriesArray(fl, mount) ==
  LET dirOf(file) == PathDirname(PathRelative(mount, file))
      all == [i \in 1..Len(fl) |-> dirOf(fl[i])]
      kept == SelectSeq(all, LAMBDA d : d # EmptyStr /\ d # mount /\ d # Dot)
  IN SortStringSeq(kept)

\* s without the repetitions of its elements, first occurrences kept
RECURSIVE Dedupe(_)
Dedupe(s) ==
  IF s = <<>> THEN <<>>
  ELSE LET r == Dedupe(SubSeq(s, 1, Len(s) - 1))
       IN IF s[Len(s)] \in Range(r) THEN r ELSE Append(r, s[Len(s)])

\* getDirectories, except that the Set is returned in insertion order
getDirectoriesUnsorted(fl, mount) ==
  LET dirOf(file) == PathDirname(PathRelative(mount, file))
      all == [i \in 1..Len(fl) |-> dirOf(fl[i])]
      kept == SelectSeq(all, LAMBDA d : d # EmptyStr /\ d # mount /\ d # Dot)
  IN Dedupe(kept)

\* getDirectories: the Set filled by the forEach, then Array.from(...).sort()
getDirectories(fl, mount) ==
  LET dirOf(file) == PathDirname(PathRelative(mount, file))
      set == {dirOf(fl[i]) : i \in 1..Len(fl)}
      kept == {d \in set : d # EmptyStr /\ d # mount /\ d # Dot}
  IN SortStrings(kept)

\* categorizeFiles: the test that sends a file to rootFiles
IsRootFile(file, mount) == PathDirname(file) = mount

\* s in reverse order
Reverse(s) == [i \in 1..Len(s) |-> s[Len(s) + 1 - i]]

\* categorizeFiles, except that a root file is put in front of rootFiles
categorizeFilesUnshift(fl, mount) ==
  [rootFiles |-> Reverse(SelectSeq(fl, LAMBDA f : IsRootFile(f, mount))),
   subdirFiles |-> SelectSeq(fl, LAMBDA f : ~IsRootFile(f, mount))]

categorizeFiles(fl, mount) ==
  [rootFiles |-> SelectSeq(fl, LAMBDA f : IsRootFile(f, mount)),
   subdirFiles |-> SelectSeq(fl, LAMBDA f : ~IsRootFile(f, mount))]

\* construct ids
ShareId == <<"s", "h", "a", "r", "e", "_">> \o shareName
DirId(dir) == <<"d", "i", "r", "_">> \o shareName \o <<"_">> \o ReplaceSlashes(dir)
RootFileId(file) ==
  <<"f", "i", "l", "e", "_">> \o shareName \o <<"_", "r", "o", "o", "t", "_">>
    \o PathBasename(file)
SubdirFileId(file, mount) ==
  <<"f", "i", "l", "e", "_">> \o shareName \o <<"_">>
    \o ReplaceSlashes(PathRelative(mount, file))

\* SubdirFilePath, except that only the last directory is kept
SubdirFilePathLastSegment(file, mount) ==
  PathBasename(PathDirname(PathRelative(mount, file)))

\* the path property of the StorageShareFile of a subdirectory file
SubdirFilePath(file, mount) ==
  LET d == PathDirname(PathRelative(mount, file))
  IN IF d = DotSlash THEN DotSlash ELSE d

\* dependsOn left out
RootFileDependsOnNothing(dirIds) == {}
SubdirFileDependsOnNothing(dirIds) == {}

\* the dependsOn property of a StorageShareFile
RootFileDependsOn(dirIds) == Range(dirIds)
SubdirFileDependsOn(dirIds) == Range(dirIds)

ChildIds == {children[i].id : i \in 1..Len(children)}

\* Construct(scope, id): a second child with the same id throws
IdTaken(id) == id \in ChildIds

\* a construct of this scope
Resource(id, type, name, path, source, shareId, dependsOn) ==
  [id |-> id, type |-> type, name |-> name, path |-> path, source |-> source,
   storageShareId |-> shareId, dependsOn |-> dependsOn]

\* ------------------------------------------------------------ initial state
\* the file system holds the tree F (files, relative to the root) and the
\* directories E
TreeInit(F, E) ==
  /\ fsFiles = {RootSegs \o p : p \in F}
  /\ fsDirs = {<<>>, RootSegs}
               \cup UNION {Ancestors(RootSegs \o p) : p \in F}
               \cup UNION {Prefixes(RootSegs \o e) : e \in E}

\* nothing exists at the root path
RootMissingInit == fsFiles = {} /\ fsDirs = {<<>>}
\* the root path designates a regular file
RootIsFileInit == fsFiles = {RootSegs} /\ fsDirs = {<<>>}

ProgramInit ==
  /\ pc = "share"
  /\ err = "none"
  /\ files = <<>>
  /\ directories = <<>>
  /\ shareDirectories = <<>>
  /\ rootFiles = <<>>
  /\ subdirFiles = <<>>
  /\ idx = 1
  /\ children = <<>>
  /\ started = {}
  /\ completed = {}

\* no previous plan
NoPlan == [directories |-> {Absent}, files |-> {}]

\* private kvPolicyCounter = 0, and no access policy yet
KvInit ==
  /\ kvPolicyCounter = 0
  /\ kvPolicies = <<>>
  /\ kvErr = "none"

\* createWorkerApiEnvVars has not been called
AcaIdle ==
  /\ KvInit
  /\ config = [redisConfig |-> <<>>]
  /\ isApi = FALSE
  /\ envPc = "idle"
  /\ baseEnvVars = <<>>

\* one call of createFileShare, for the first share, in a first run
SingleCall ==
  /\ shareName = ShareName
  /\ pending = <<>>
  /\ prevPlan = NoPlan
  /\ AcaIdle

Init ==
  /\ mountDir \in MountDirs
  /\ \/ \E F \in SubsetsUpTo(FilePaths, MaxFiles), E \in ExtraDirChoices :
          TreeInit(F, E)
     \/ RootMissingInit
     \/ RootIsFileInit
  /\ fsDenied = {}
  /\ ProgramInit
  /\ SingleCall

\* ------------------------------------------------------------------ actions
\* an exception leaves createFileShare and the constructor
Throw(e) ==
  /\ err' = e
  /\ pc' = "failed"

\* the position after the directories are created
AfterDirs(rf, sf) ==
  IF Len(rf) > 0 THEN "rootfiles"
  ELSE IF Len(sf) > 0 THEN "subfiles"
  ELSE "planned"

\* new StorageShare(this, `share_${props.shareName}`, ...)
NewShare ==
  /\ pc = "share"
  /\ children' = Append(children,
       Resource(ShareId, "share", shareName, Absent, Absent, Absent, {}))
  /\ pc' = "walk"
  /\ UNCHANGED <<fsVars, ctxVars, err, files, directories, shareDirectories, rootFiles,
                 subdirFiles, idx, started, completed>>

\* Walk, except that an error of readdirSync is caught and no file is listed
WalkCatchingErrors ==
  /\ pc = "walk"
  /\ IF ReaddirError(mountDir) # "none"
     THEN files' = <<>>
     ELSE \E ord \in ReaddirOrders : files' = getAllFiles(mountDir, ord)
  /\ pc' = "dirs"
  /\ UNCHANGED <<fsVars, ctxVars, err, directories, shareDirectories, rootFiles,
                 subdirFiles, idx, children, started, completed>>

\* const files = this.getAllFiles(props.localMountDir)
Walk ==
  /\ pc = "walk"
  /\ \E ord \in ReaddirOrders :
       IF getAllFilesError(mountDir, ord) # "none"
       THEN /\ Throw(getAllFilesError(mountDir, ord))
            /\ UNCHANGED files
       ELSE /\ files' = getAllFiles(mountDir, ord)
            /\ pc' = "dirs"
            /\ UNCHANGED err
  /\ UNCHANGED <<fsVars, ctxVars, directories, shareDirectories, rootFiles, subdirFiles,
                 idx, children, started, completed>>

\* const directories = this.getDirectories(files, props.localMountDir)
GetDirectories ==
  /\ pc = "dirs"
  /\ directories' = getDirectories(files, mountDir)
  /\ idx' = 1
  /\ pc' = "mkdirs"
  /\ UNCHANGED <<fsVars, ctxVars, err, files, shareDirectories, rootFiles, subdirFiles,
                 children, started, completed>>

\* one iteration of directories.map(...): new StorageShareDirectory
NewDirectory ==
  /\ pc = "mkdirs"
  /\ idx <= Len(directories)
  /\ LET dir == directories[idx]
         id == DirId(dir)
     IN IF IdTaken(id)
        THEN /\ Throw("DuplicateId")
             /\ UNCHANGED <<children, shareDirectories, idx>>
        ELSE /\ children' = Append(children,
                  Resource(id, "dir", dir, Absent, Absent, ShareId, {}))
             /\ shareDirectories' = Append(shareDirectories, id)
             /\ idx' = idx + 1
             /\ UNCHANGED <<pc, err>>
  /\ UNCHANGED <<fsVars, ctxVars, files, directories, rootFiles, subdirFiles,
                 started, completed>>

\* const { rootFiles, subdirFiles } = this.categorizeFiles(...)
Categorize ==
  /\ pc = "mkdirs"
  /\ idx > Len(directories)
  /\ LET c == categorizeFiles(files, mountDir)
     IN /\ rootFiles' = c.rootFiles
        /\ subdirFiles' = c.subdirFiles
        /\ pc' = AfterDirs(c.rootFiles, c.subdirFiles)
  /\ idx' = 1
  /\ UNCHANGED <<fsVars, ctxVars, err, files, directories, shareDirectories, children,
                 started, completed>>

\* one iteration of rootFiles.forEach(...): new StorageShareFile
NewRootFile ==
  /\ pc = "rootfiles"
  /\ idx <= Len(rootFiles)
  /\ LET file == rootFiles[idx]
         id == RootFileId(file)
     IN IF IdTaken(id)
        THEN /\ Throw("DuplicateId")
             /\ UNCHANGED <<children, idx>>
        ELSE /\ children' = Append(children,
                  Resource(id, "file", PathBasename(file), Absent, file,
                           ShareId, RootFileDependsOn(shareDirectories)))
             /\ IF idx < Len(rootFiles)
                THEN idx' = idx + 1 /\ UNCHANGED pc
                ELSE idx' = 1 /\ pc' = AfterDirs(<<>>, subdirFiles)
             /\ UNCHANGED err
  /\ UNCHANGED <<fsVars, ctxVars, files, directories, shareDirectories, rootFiles,
                 subdirFiles, started, completed>>

\* one iteration of subdirFiles.forEach(...): new StorageShareFile
NewSubdirFile ==
  /\ pc = "subfiles"
  /\ idx <= Len(subdirFiles)
  /\ LET file == subdirFiles[idx]
         id == SubdirFileId(file, mountDir)
     IN IF IdTaken(id)
        THEN /\ Throw("DuplicateId")
             /\ UNCHANGED <<children, idx>>
        ELSE /\ children' = Append(children,
                  Resource(id, "file", PathBasename(file),
                           SubdirFilePath(file, mountDir), file,
                           ShareId, SubdirFileDependsOn(shareDirectories)))
             /\ IF idx < Len(subdirFiles)
                THEN idx' = idx + 1 /\ UNCHANGED pc
                ELSE idx' = 1 /\ pc' = "planned"
             /\ UNCHANGED err
  /\ UNCHANGED <<fsVars, ctxVars, files, directories, shareDirectories, rootFiles,
                 subdirFiles, started, completed>>

\* ------------------------------------------------------ provisioning engine
\* DependenciesOf, except that a resource also waits for itself
DependenciesOfWithSelf(c) ==
  c.dependsOn \cup {c.id}
    \cup (IF c.storageShareId = Absent THEN {} ELSE {c.storageShareId})

\* the resources whose completion resource c waits for: its dependsOn and
\* the resource its storageShareId refers to
DependenciesOf(c) ==
  c.dependsOn \cup (IF c.storageShareId = Absent THEN {} ELSE {c.storageShareId})

\* the engine begins the creation of a resource whose dependencies are done
StartCreate ==
  /\ pc = "planned"
  /\ \E i \in 1..Len(children) :
       /\ children[i].id \notin started
       /\ DependenciesOf(children[i]) \subseteq completed
       /\ started' = started \cup {children[i].id}
  /\ UNCHANGED <<fsVars, ctxVars, pc, err, files, directories, shareDirectories,
                 rootFiles, subdirFiles, idx, children, completed>>

\* a creation that has begun completes
CompleteCreate ==
  /\ pc = "planned"
  /\ \E id \in started \ completed : completed' = completed \cup {id}
  /\ UNCHANGED <<fsVars, ctxVars, pc, err, files, directories, shareDirectories,
                 rootFiles, subdirFiles, idx, children, started>>

Next ==
  \/ NewShare
  \/ Walk
  \/ GetDirectories
  \/ NewDirectory
  \/ Categorize
  \/ NewRootFile
  \/ NewSubdirFile
  \/ StartCreate
  \/ CompleteCreate

Spec == Init /\ [][Next]_vars

\* ------------------------------------- classification of arbitrary files
\* getDirectories and categorizeFiles are applied to a list of files that
\* need not lie under the mount directory
NameRoot == <<"r", "o", "o", "t">>

CandidateSegs ==
  {RootSegs \o << <<"x">> >>, RootSegs \o <<NameA, <<"x">> >>,
   RootSegs \o <<NameA, <<"y">> >>, RootSegs \o <<NameRoot, <<"x">> >>,
   << <<"x">> >>, <<NameA, <<"x">> >>, <<NameA, NameA, <<"x">> >>}

AbsoluteOf(segs) == <<Slash>> \o JoinSegs(segs)

InitClassify ==
  /\ mountDir \in MountDirs
  /\ \E p \in CandidateSegs, q \in CandidateSegs :
       /\ fsFiles = {p, q}
       /\ fsDirs = {RootSegs} \cup Ancestors(p) \cup Ancestors(q)
       /\ files = IF p = q THEN <<AbsoluteOf(p)>>
                  ELSE <<AbsoluteOf(p), AbsoluteOf(q)>>
  /\ pc = "dirs"
  /\ err = "none"
  /\ directories = <<>>
  /\ shareDirectories = <<>>
  /\ rootFiles = <<>>
  /\ subdirFiles = <<>>
  /\ idx = 1
  /\ fsDenied = {}
  /\ SingleCall
  /\ children = <<Resource(ShareId, "share", ShareName, Absent, Absent, Absent, {})>>
  /\ started = {}
  /\ completed = {}

NextClassify ==
  \/ GetDirectories
  \/ NewDirectory
  \/ Categorize
  \/ NewRootFile
  \/ NewSubdirFile

SpecClassify == InitClassify /\ [][NextClassify]_vars

\* ============================================================ properties
\* the constructs of one type, as a set of indices into children
DirIdx == {i \in 1..Len(children) : children[i].type = "dir"}
FileIdx == {i \in 1..Len(children) : children[i].type = "file"}

\* the tree seen from the root: files and their directories, as segments
RelFiles == {SubSeq(p, Len(RootSegs) + 1, Len(p)) : p \in fsFiles \ {RootSegs}}
RelDirOf(p) == SubSeq(p, 1, Len(p) - 1)
\* the root designates a directory
RootIsDir == RootSegs \in fsDirs

\* C1: once the engine has begun to create a file that has a path, the
\* directory of that name has been created completely
C1_FileAfterItsDirectory ==
  \A f \in FileIdx, d \in DirIdx :
    (/\ children[f].path # Absent
     /\ children[d].name = children[f].path
     /\ children[f].id \in started)
      => children[d].id \in completed

\* a nested file is being created and its directory is complete
C1_Witness ==
  \E f \in FileIdx, d \in DirIdx :
    /\ children[f].path # Absent
    /\ children[d].name = children[f].path
    /\ children[f].id \in started
    /\ children[d].id \in completed

\* C2: every file construct depends on exactly the directory constructs of
\* the plan, whether it sits at the root or below it
C2_FilesDependOnAllDirectories ==
  \A f \in FileIdx : children[f].dependsOn = {children[d].id : d \in DirIdx}

\* a finished plan with a directory, a root file and a nested file
C2_Witness ==
  /\ pc = "planned"
  /\ DirIdx # {}
  /\ \E f \in FileIdx : children[f].path = Absent
  /\ \E f \in FileIdx : children[f].path # Absent

\* C3: for a root that is a directory, createFileShare ends with one
\* directory construct per distinct sub-directory that holds a file and one
\* file construct per file, and rootFiles and subdirFiles share the files
C3_PlanCounts ==
  (RootIsDir /\ pc \in {"planned", "failed"}) =>
    /\ pc = "planned"
    /\ Cardinality(DirIdx) =
         Cardinality({RelDirOf(p) : p \in {q \in RelFiles : Len(q) > 1}})
    /\ Cardinality(FileIdx) = Cardinality(RelFiles)
    /\ Len(rootFiles) + Len(subdirFiles) = Cardinality(RelFiles)

\* C4: a file construct that has a path names a directory construct of the
\* same plan, whatever the spelling of the root
C4_PathNamesADirectory ==
  \A f \in FileIdx :
    children[f].path # Absent => \E d \in DirIdx : children[d].name = children[f].path

\* C5: a file directly inside the root is emitted without a path, and no
\* file construct has the path "." or ""
C5_RootFilesHaveNoPath ==
  \A f \in FileIdx :
    /\ children[f].path \notin {Dot, EmptyStr}
    /\ Len(ResolveSegs(children[f].source)) = Len(RootSegs) + 1
         => children[f].path = Absent

\* the directories the tree calls for: those that hold a file directly
ExpectedDirs == {JoinSegs(RelDirOf(p)) : p \in {q \in RelFiles : Len(q) > 1}}

\* getDirectories has returned
DirsComputed ==
  \/ pc \in {"mkdirs", "rootfiles", "subfiles", "planned"}
  \/ pc = "failed" /\ err = "DuplicateId"

NeverADirectory == {EmptyStr, Dot, mountDir, MountNormalized}

\* C7: the directories of a plan are pairwise different, and none of them
\* is the empty path, "." or the root path
C7_DirectoriesUnique ==
  /\ \A i, j \in 1..Len(directories) : i # j => directories[i] # directories[j]
  /\ \A i \in 1..Len(directories) : directories[i] \notin NeverADirectory
  /\ \A d, e \in DirIdx : d # e => children[d].name # children[e].name
  /\ \A d \in DirIdx : children[d].name \notin NeverADirectory

\* two files of one directory and a finished plan with that one directory
C7_Witness ==
  /\ pc = "planned"
  /\ \E p, q \in RelFiles : p # q /\ Len(p) > 1 /\ RelDirOf(p) = RelDirOf(q)
  /\ Cardinality(DirIdx) = 1

\* C8: a root that does not exist ends createFileShare with the ENOENT
\* error of readdirSync, a root that is a regular file with its ENOTDIR
\* error, and neither leaves a directory or a file construct
C8_RootErrors ==
  pc \notin {"share", "walk"} =>
    /\ RootSegs \notin fsDirs \cup fsFiles =>
         pc = "failed" /\ err = "ENOENT" /\ DirIdx = {} /\ FileIdx = {}
    /\ RootSegs \in fsFiles =>
         pc = "failed" /\ err = "ENOTDIR" /\ DirIdx = {} /\ FileIdx = {}

\* the walk of a root that is a regular file has failed
C8_Witness == RootSegs \in fsFiles /\ pc = "failed" /\ err = "ENOTDIR"

\* file f lies below the root
UnderRoot(f) ==
  LET s == ResolveSegs(f)
  IN Len(s) > Len(RootSegs) /\ SubSeq(s, 1, Len(RootSegs)) = RootSegs

\* C9: when a file of the list lies outside the root the classification
\* fails with PathEscapeError, and no directory that leaves the root and
\* no file construct is derived from that file
C9_EscapeRejected ==
  (\E i \in 1..Len(files) : ~UnderRoot(files[i])) =>
    /\ pc # "dirs" => pc = "failed" /\ err = "PathEscapeError"
    /\ \A d \in 1..Len(directories) : Head(Segments(directories[d])) # DotDot
    /\ \A f \in FileIdx : UnderRoot(children[f].source)

ThePlan ==
  [directories |-> {children[d].name : d \in DirIdx},
   files |-> {<<children[f].name, children[f].path, children[f].source>> :
                f \in FileIdx},
   walk |-> files]

\* the program is run again on the same tree with the same root: the plan
\* of the first run is kept for comparison and the constructs start afresh
PlanAgain ==
  /\ pc = "planned"
  /\ prevPlan = NoPlan
  /\ prevPlan' = ThePlan
  /\ pc' = "share"
  /\ files' = <<>>
  /\ directories' = <<>>
  /\ shareDirectories' = <<>>
  /\ rootFiles' = <<>>
  /\ subdirFiles' = <<>>
  /\ idx' = 1
  /\ children' = <<>>
  /\ UNCHANGED <<fsVars, err, started, completed, shareName, pending, acaVars>>

NextRerun ==
  \/ NewShare
  \/ Walk
  \/ GetDirectories
  \/ NewDirectory
  \/ Categorize
  \/ NewRootFile
  \/ NewSubdirFile
  \/ PlanAgain

SpecRerun == Init /\ [][NextRerun]_vars

\* C11: the second run of createFileShare on the unchanged tree ends with
\* the same set of directories and the same set of (name, path, source)
\* files as the first run, in whatever order each walk listed the files
C11_SamePlanTwice ==
  (prevPlan # NoPlan /\ pc \in {"planned", "failed"}) =>
    /\ pc = "planned"
    /\ ThePlan.directories = prevPlan.directories
    /\ ThePlan.files = prevPlan.files

\* the second run has ended after a walk in another order than the first,
\* with two directories and two files
C11_Witness ==
  /\ prevPlan # NoPlan
  /\ pc = "planned"
  /\ files # prevPlan.walk
  /\ Cardinality(DirIdx) = 2
  /\ Cardinality(FileIdx) = 2

\* ------------------------------------------- a walk that fails on the way
\* the directories at or below the root
DirsUnderRoot ==
  {d \in fsDirs : Len(d) >= Len(RootSegs) /\ SubSeq(d, 1, Len(RootSegs)) = RootSegs}

\* as Init, and at most one directory at or below the root cannot be read
InitFault ==
  /\ mountDir \in MountDirs
  /\ \/ \E F \in SubsetsUpTo(FilePaths, MaxFiles), E \in ExtraDirChoices :
          TreeInit(F, E)
     \/ RootMissingInit
     \/ RootIsFileInit
  /\ fsDenied \in {{}} \cup {{d} : d \in DirsUnderRoot}
  /\ ProgramInit
  /\ SingleCall

SpecFault == InitFault /\ [][Next]_vars

\* the walk of the root cannot succeed
WalkMustFail == RootSegs \notin fsDirs \/ fsDenied \cap DirsUnderRoot # {}

SandboxName == <<"s", "a", "n", "d", "b", "o", "x">>
SsrfproxyName == <<"s", "s", "r", "f", "p", "r", "o", "x", "y">>
SandboxSegs == << <<"s">> >>
SsrfproxySegs == << <<"p">> >>

\* the props of the three createFileShare calls, in the order of the calls
ShareProps ==
  <<[shareName |-> ShareName, localMountDir |-> AbsoluteOf(RootSegs)],
    [shareName |-> SandboxName, localMountDir |-> AbsoluteOf(SandboxSegs)],
    [shareName |-> SsrfproxyName, localMountDir |-> AbsoluteOf(SsrfproxySegs)]>>

\* what a mountfiles directory may hold: files relative to it, or nothing
\* at its path
Missing == {<<"missing">>}
RootChoices ==
  {Missing, {},
   {<< <<"x">> >>},
   {<<NameA, <<"x">> >>},
   {<< <<"x">> >>, <<NameA, <<"y">> >>},
   {<<NameA, NameAA, <<"x">> >>, <<NameA, <<"y">> >>}}

\* the files and the directories that choice c puts at root
FilesAt(root, c) == IF c = Missing THEN {} ELSE {root \o p : p \in c}
DirsAt(root, c) ==
  IF c = Missing THEN {}
  ELSE {root} \cup UNION {Ancestors(root \o p) : p \in c}

InitConstructor ==
  /\ \E c1 \in RootChoices, c2 \in RootChoices, c3 \in RootChoices :
       /\ fsFiles = FilesAt(RootSegs, c1) \cup FilesAt(SandboxSegs, c2)
                      \cup FilesAt(SsrfproxySegs, c3)
       /\ fsDirs = {<<>>} \cup DirsAt(RootSegs, c1) \cup DirsAt(SandboxSegs, c2)
                     \cup DirsAt(SsrfproxySegs, c3)
  /\ fsDenied = {}
  /\ mountDir = ShareProps[1].localMountDir
  /\ shareName = ShareProps[1].shareName
  /\ pending = Tail(ShareProps)
  /\ prevPlan = NoPlan
  /\ AcaIdle
  /\ ProgramInit

\* createFileShare returns and the constructor makes its next call
NextShare ==
  /\ pc = "planned"
  /\ pending # <<>>
  /\ shareName' = Head(pending).shareName
  /\ mountDir' = Head(pending).localMountDir
  /\ pending' = Tail(pending)
  /\ pc' = "share"
  /\ files' = <<>>
  /\ directories' = <<>>
  /\ shareDirectories' = <<>>
  /\ rootFiles' = <<>>
  /\ subdirFiles' = <<>>
  /\ idx' = 1
  /\ UNCHANGED <<fsFiles, fsDirs, fsDenied, err, children, started, completed,
                 prevPlan, acaVars>>

NextConstructor ==
  \/ NewShare
  \/ Walk
  \/ GetDirectories
  \/ NewDirectory
  \/ Categorize
  \/ NewRootFile
  \/ NewSubdirFile
  \/ NextShare

SpecConstructor == InitConstructor /\ [][NextConstructor]_vars

\* the files of the tree below root
FilesBelow(root) ==
  {p \in fsFiles : Len(p) > Len(root) /\ SubSeq(p, 1, Len(root)) = root}

\* C13: when the constructor has ended with the failure of one root, every
\* other root that is a directory has its plan: a file construct for each
\* of its files
C13_RootsIndependent ==
  pc = "failed" =>
    \A i \in 1..Len(ShareProps) :
      LET root == ResolveSegs(ShareProps[i].localMountDir)
      IN (root \in fsDirs /\ ShareProps[i].localMountDir # mountDir) =>
           \A p \in FilesBelow(root) :
             \E f \in FileIdx : children[f].source = AbsoluteOf(p)

\* ------------------------------------------------ order, walk, round trip
\* the index of x in s
IndexOf(s, x) == CHOOSE i \in 1..Len(s) : s[i] = x

\* sub holds elements of s, each once, in the order they have in s
InOrderOf(sub, s) ==
  /\ Range(sub) \subseteq Range(s)
  /\ \A i, j \in 1..Len(sub) : i < j => IndexOf(s, sub[i]) < IndexOf(s, sub[j])

\* the sources of the file constructs, in the order of their creation
RECURSIVE FileSourcesFrom(_)
FileSourcesFrom(i) ==
  IF i > Len(children) THEN <<>>
  ELSE (IF children[i].type = "file" THEN <<children[i].source>> ELSE <<>>)
       \o FileSourcesFrom(i + 1)

\* categorizeFiles has returned
Categorized == pc \in {"rootfiles", "subfiles", "planned"}

\* C14: rootFiles and subdirFiles split the files of the walk, each in the
\* order of the walk, and the file constructs are created for the root
\* files in that order and then for the subdirectory files in that order
C14_OrderPreserved ==
  /\ Categorized =>
       /\ Range(rootFiles) \cup Range(subdirFiles) = Range(files)
       /\ Range(rootFiles) \cap Range(subdirFiles) = {}
       /\ Len(rootFiles) + Len(subdirFiles) = Len(files)
       /\ InOrderOf(rootFiles, files)
       /\ InOrderOf(subdirFiles, files)
  /\ LET emitted == FileSourcesFrom(1)
     IN /\ Len(emitted) <= Len(rootFiles \o subdirFiles)
        /\ emitted = SubSeq(rootFiles \o subdirFiles, 1, Len(emitted))
        /\ pc = "planned" => Len(emitted) = Len(files)

\* the walk listed a nested file before a root file, and the plan has the
\* root file first
C14_Witness ==
  /\ pc = "planned"
  /\ Len(files) = 2
  /\ Len(rootFiles) = 1
  /\ files[2] = rootFiles[1]
  /\ FileSourcesFrom(1) = <<files[2], files[1]>>

\* C15: the directories getDirectories returns are in strictly increasing
\* order of Array.sort() and are the directories of the tree, whatever the
\* order of the files it is given
C15_DirectoriesSorted ==
  DirsComputed =>
    /\ \A i, j \in 1..Len(directories) :
         i < j => StrLess(directories[i], directories[j])
    /\ Range(directories) = ExpectedDirs

\* the first file of the list lies in the greater of two directories
C15_Witness ==
  /\ DirsComputed
  /\ Len(directories) = 2
  /\ PathDirname(PathRelative(mountDir, files[1])) = directories[2]

\* getAllFiles has returned
Walked == pc \notin {"share", "walk"} /\ err \notin {"ENOENT", "ENOTDIR", "EACCES"}

\* C16: the list of getAllFiles holds the normalized absolute path of each
\* regular file below the root once, no directory, and nothing that lies
\* elsewhere
C16_WalkComplete ==
  Walked =>
    LET root == ResolveSegs(mountDir)
    IN /\ {ResolveSegs(files[i]) : i \in 1..Len(files)} = FilesBelow(root)
       /\ Len(files) = Cardinality(FilesBelow(root))
       /\ \A i \in 1..Len(files) :
            /\ files[i] = AbsoluteOf(ResolveSegs(files[i]))
            /\ ResolveSegs(files[i]) \notin fsDirs

\* the walk of the first root has listed its two files, one three levels
\* down, while the other roots hold files too
C16_Witness ==
  /\ Walked
  /\ mountDir = ShareProps[1].localMountDir
  /\ Len(files) = 2
  /\ \E i \in 1..2 : Len(ResolveSegs(files[i])) = Len(RootSegs) + 3
  /\ FilesBelow(SandboxSegs) # {}

\* C17: the path of a file construct joined with its name is the path of
\* the source relative to the root
C17_RoundTrip ==
  \A f \in FileIdx :
    children[f].path # Absent =>
      LET segs == ResolveSegs(children[f].source)
      IN /\ PathJoin(children[f].path, children[f].name)
              = JoinSegs(SubSeq(segs, Len(RootSegs) + 1, Len(segs)))
         /\ PathJoin(children[f].path, children[f].name)
              = PathRelative(mountDir, children[f].source)

\* a file three levels below the root has its construct
C17_Witness ==
  /\ pc = "planned"
  /\ \E f \in FileIdx :
       /\ children[f].path = NameA \o <<Slash>> \o NameAA
       /\ children[f].name = <<"y">>

\* -------------------------------------------------------- construct ids
\* the ids of the file constructs that createFileShare is to create
FileIdsToCreate ==
  [i \in 1..Len(rootFiles) |-> RootFileId(rootFiles[i])]
    \o [i \in 1..Len(subdirFiles) |-> SubdirFileId(subdirFiles[i], mountDir)]

\* C18: the ids given to the directories of one share are pairwise
\* different, so are the ids given to its files, and no construct is
\* refused for its id
C18_IdsDistinct ==
  /\ err # "DuplicateId"
  /\ DirsComputed =>
       \A i, j \in 1..Len(directories) :
         i # j => DirId(directories[i]) # DirId(directories[j])
  /\ Categorized =>
       \A i, j \in 1..Len(FileIdsToCreate) :
         i # j => FileIdsToCreate[i] # FileIdsToCreate[j]

\* ------------------------------------------------------- a fair engine
\* the engine does not put off for ever a creation it can begin or end
SpecLive ==
  Init /\ [][Next]_vars /\ WF_vars(StartCreate) /\ WF_vars(CompleteCreate)

\* shares come before directories, directories before files
Rank(type) == CASE type = "share" -> 0 [] type = "dir" -> 1 [] type = "file" -> 2

\* every dependency of a construct is a construct of a lower rank
DependenciesAcyclic ==
  \A i \in 1..Len(children) :
    \A d \in DependenciesOf(children[i]) :
      \E j \in 1..Len(children) :
        /\ children[j].id = d
        /\ Rank(children[j].type) < Rank(children[i].type)

\* C19: a file waits for directories and the share only, a directory for
\* the share only, and once the plan is built the fair engine comes to
\* have created every construct of it
C19_EngineCompletes ==
  /\ [](DependenciesAcyclic)
  /\ (pc = "planned") ~> (completed = ChildIds)

\* every construct of a plan with a directory and a file has been created
C19_Witness ==
  /\ pc = "planned"
  /\ completed = ChildIds
  /\ DirIdx # {}
  /\ FileIdx # {}

\* ------------------------------------- environment of the worker and the api
\* the values main.ts may hand over in ContainerAppEnvConfig
AdminUsernames == {"user", "admin"}
PostgresHosts == {"pg1", "pg2"}
StorageNames == {"st1", "st2"}
AccessKeys == {"k1", "k2"}

\* a redis configuration, or none: <<>> stands for undefined
RedisConfigs == {<<>>, <<[host |-> "redis1", primaryKey |-> "p1"]>>,
                 <<[host |-> "redis2", primaryKey |-> "p1"]>>}

Configs ==
  [postgresConfig :
     [adminUsername : AdminUsernames, host : PostgresHosts,
      difypgsqldb : {"difypgsqldb"}, pgvectordb : {"pgvector"}],
   storageAccount :
     [name : StorageNames, accessKey : AccessKeys, containerName : {"dfy"}],
   redisConfig : RedisConfigs]

\* { name, value } and { name, secretName }
EnvValue(n, v) == [name |-> n, value |-> v]
EnvSecret(n, s) == [name |-> n, secretName |-> s]

\* the literal of baseEnvVars
BaseEnvVars(c, api) ==
  << EnvValue("MODE", IF api THEN "api" ELSE "worker"),
     EnvValue("LOG_LEVEL", "INFO"),
     EnvValue("SECRET_KEY", "sk-9f73s3ljTXVcMT3Blb3ljTqtsKiGHXVcMT3BlbkFJLK7U"),
     EnvValue("DB_USERNAME", c.postgresConfig.adminUsername),
     EnvSecret("DB_PASSWORD", "postgres-db-password"),
     EnvValue("DB_HOST", c.postgresConfig.host),
     EnvValue("DB_PORT", "5432"),
     EnvValue("DB_DATABASE", c.postgresConfig.difypgsqldb),
     EnvValue("AZURE_BLOB_ACCOUNT_NAME", c.storageAccount.name),
     EnvValue("AZURE_BLOB_ACCOUNT_KEY", c.storageAccount.accessKey),
     EnvValue("AZURE_BLOB_ACCOUNT_URL",
              "https://" \o c.storageAccount.name \o ".blob.core.windows.net"),
     EnvValue("AZURE_BLOB_CONTAINER_NAME", c.storageAccount.containerName),
     EnvValue("VECTOR_STORE", "pgvector"),
     EnvValue("PGVECTOR_HOST", c.postgresConfig.host),
     EnvValue("PGVECTOR_HOST", "5432"),
     EnvValue("PGVECTOR_USER", c.postgresConfig.adminUsername),
     EnvSecret("PGVECTOR_PASSWORD", "postgres-db-password"),
     EnvValue("PGVECTOR_DATABASE", c.postgresConfig.pgvectordb),
     EnvValue("INDEXING_MAX_SEGMENTATION_TOKENS_LENGTH", "1000") >>

\* the entries pushed if (config.redisConfig)
RedisEnvVars(r) ==
  << EnvValue("REDIS_HOST", r.host),
     EnvValue("REDIS_PORT", "6379"),
     EnvValue("REDIS_PASSWORD", r.primaryKey),
     EnvValue("REDIS_USE_SSL", "false"),
     EnvValue("REDIS_DB", "0"),
     EnvValue("CELERY_BROKER_URL",
              "redis://:" \o r.primaryKey \o "@" \o r.host \o ":6379/1") >>

\* the entries pushed if (isApi)
ApiEnvVars ==
  << EnvValue("WEB_API_CORS_ALLOW_ORIGINS", "*"),
     EnvValue("CONSOLE_CORS_ALLOW_ORIGINS", "*"),
     EnvValue("CODE_EXECUTION_API_KEY", "dify-sandbox"),
     EnvValue("CODE_EXECUTION_ENDPOINT", "http://sandbox:8194"),
     EnvValue("CODE_MAX_NUMBER", "9223372036854775807"),
     EnvValue("CODE_MIN_NUMBER", "-9223372036854775808"),
     EnvValue("CODE_MAX_STRING_LENGTH", "80000"),
     EnvValue("TEMPLATE_TRANSFORM_MAX_LENGTH", "80000"),
     EnvValue("CODE_MAX_OBJECT_ARRAY_LENGTH", "30"),
     EnvValue("CODE_MAX_STRING_ARRAY_LENGTH", "30"),
     EnvValue("CODE_MAX_NUMBER_ARRAY_LENGTH", "1000"),
     EnvValue("CONSOLE_WEB_URL", ""),
     EnvValue("INIT_PASSWORD", ""),
     EnvValue("CONSOLE_API_URL", ""),
     EnvValue("SERVICE_API_URL", ""),
     EnvValue("APP_WEB_URL", ""),
     EnvValue("FILES_URL", ""),
     EnvValue("FILES_ACCESS_TIMEOUT", "300"),
     EnvValue("MIGRATION_ENABLED", "true"),
     EnvValue("SENTRY_DSN", ""),
     EnvValue("SENTRY_TRACES_SAMPLE_RATE", "1.0"),
     EnvValue("SENTRY_PROFILES_SAMPLE_RATE", "1.0"),
     EnvValue("STORAGE_TYPE", "azure-blob") >>

createWorkerApiEnvVars(c, api) ==
  BaseEnvVars(c, api)
    \o (IF c.redisConfig # <<>> THEN RedisEnvVars(c.redisConfig[1]) ELSE <<>>)
    \o (IF api THEN ApiEnvVars ELSE <<>>)

\* the constructor of ContainerAppEnvConstruct is about to create the apps
InitEnv ==
  /\ fsFiles = {}
  /\ fsDirs = {}
  /\ fsDenied = {}
  /\ mountDir = MountNormalized
  /\ ProgramInit
  /\ shareName = ShareName
  /\ pending = <<>>
  /\ prevPlan = NoPlan
  /\ config \in Configs
  /\ isApi = FALSE
  /\ envPc = "constructing"
  /\ baseEnvVars = <<>>
  /\ KvInit

\* the worker app: env: this.createWorkerApiEnvVars(config)
CreateWorkerApp ==
  /\ envPc = "constructing"
  /\ isApi' = FALSE
  /\ baseEnvVars' = createWorkerApiEnvVars(config, FALSE)
  /\ envPc' = "worker"
  /\ UNCHANGED <<fsVars, shareName, pending, prevPlan, config, kvVars, pc, err,
                 files,
                 directories, shareDirectories, rootFiles, subdirFiles, idx,
                 children, started, completed>>

\* the api app: env: this.createWorkerApiEnvVars(config, true)
CreateApiApp ==
  /\ envPc = "worker"
  /\ isApi' = TRUE
  /\ baseEnvVars' = createWorkerApiEnvVars(config, TRUE)
  /\ envPc' = "api"
  /\ UNCHANGED <<fsVars, shareName, pending, prevPlan, config, kvVars, pc, err,
                 files,
                 directories, shareDirectories, rootFiles, subdirFiles, idx,
                 children, started, completed>>

NextEnv == CreateWorkerApp \/ CreateApiApp

SpecEnv == InitEnv /\ [][NextEnv]_vars

\* createWorkerApiEnvVars has returned its list
EnvReturned == envPc \in {"worker", "api"}

\* C20: the list returned by createWorkerApiEnvVars has no two entries with
\* the same name, and every entry has exactly one of value and secretName
C20_EnvVarsWellFormed ==
  EnvReturned =>
    /\ \A i, j \in 1..Len(baseEnvVars) :
         i # j => baseEnvVars[i].name # baseEnvVars[j].name
    /\ \A i \in 1..Len(baseEnvVars) :
         ("value" \in DOMAIN baseEnvVars[i])
           # ("secretName" \in DOMAIN baseEnvVars[i])

\* ------------------------------------------------ key vault access policies
\* the calls of addKeyVaultAccess considered
MaxCalls == 11

\* worker.identity.principalId and api.identity.principalId
PrincipalIds == {"worker", "api"}

DecimalDigits == <<"0", "1", "2", "3", "4", "5", "6", "7", "8", "9">>

\* String(n) for an integer n >= 0: its decimal digits, as characters
RECURSIVE NumberToString(_)
NumberToString(n) ==
  IF n < 10 THEN <<DecimalDigits[n + 1]>>
  ELSE NumberToString(n \div 10) \o <<DecimalDigits[(n % 10) + 1]>>

KvPrefix ==
  <<"k", "e", "y", "v", "a", "u", "l", "t", "-",
    "a", "c", "c", "e", "s", "s", "-">>

\* `keyvault-access-${n}`
KvPolicyId(n) == KvPrefix \o NumberToString(n)

\* a construct of this id is already a child of the scope
KvIdTaken(id) == \E i \in 1..Len(kvPolicies) : kvPolicies[i].id = id

\* addKeyVaultAccess with kvPolicyCounter++ in place of ++kvPolicyCounter
addKeyVaultAccessPostIncrement(principalId) ==
  /\ kvErr = "none"
  /\ kvPolicyCounter < MaxCalls
  /\ kvPolicyCounter' = kvPolicyCounter + 1
  /\ IF KvIdTaken(KvPolicyId(kvPolicyCounter))
       THEN /\ kvErr' = "DuplicateId"
            /\ UNCHANGED kvPolicies
       ELSE /\ kvPolicies' =
                 Append(kvPolicies,
                        [id |-> KvPolicyId(kvPolicyCounter),
                         objectId |-> principalId])
            /\ UNCHANGED kvErr
  /\ UNCHANGED <<fsVars, shareName, pending, prevPlan, config, isApi, envPc,
                 baseEnvVars, pc, err, files, directories, shareDirectories,
                 rootFiles, subdirFiles, idx, children, started, completed>>

\* addKeyVaultAccess: the counter is incremented, then names the new
\* KeyVaultAccessPolicyA, whose constructor throws if the id is taken
addKeyVaultAccess(principalId) ==
  /\ kvErr = "none"
  /\ kvPolicyCounter < MaxCalls
  /\ kvPolicyCounter' = kvPolicyCounter + 1
  /\ IF KvIdTaken(KvPolicyId(kvPolicyCounter'))
       THEN /\ kvErr' = "DuplicateId"
            /\ UNCHANGED kvPolicies
       ELSE /\ kvPolicies' =
                 Append(kvPolicies,
                        [id |-> KvPolicyId(kvPolicyCounter'),
                         objectId |-> principalId])
            /\ UNCHANGED kvErr
  /\ UNCHANGED <<fsVars, shareName, pending, prevPlan, config, isApi, envPc,
                 baseEnvVars, pc, err, files, directories, shareDirectories,
                 rootFiles, subdirFiles, idx, children, started, completed>>

\* a ContainerAppEnvConstruct on which addKeyVaultAccess has not been called
InitKv ==
  /\ fsFiles = {}
  /\ fsDirs = {}
  /\ fsDenied = {}
  /\ mountDir = MountNormalized
  /\ ProgramInit
  /\ SingleCall

NextKv == \E principalId \in PrincipalIds : addKeyVaultAccess(principalId)

SpecKv == InitKv /\ [][NextKv]_vars

\* the number a string of decimal digits denotes, -1 if it is not one
IsDecimalDigit(c) == \E d \in 1..10 : DecimalDigits[d] = c
DigitValue(c) == (CHOOSE d \in 1..10 : DecimalDigits[d] = c) - 1
RECURSIVE DecimalValue(_)
DecimalValue(s) ==
  IF Len(s) = 0 THEN 0
  ELSE 10 * DecimalValue(SubSeq(s, 1, Len(s) - 1)) + DigitValue(s[Len(s)])
ParseDecimal(s) ==
  IF Len(s) > 0 /\ \A i \in 1..Len(s) : IsDecimalDigit(s[i])
    THEN DecimalValue(s) ELSE -1

\* the number the id of an access policy ends with, -1 if the id is not
\* keyvault-access- followed by a number
KvSuffix(id) ==
  IF Len(id) > Len(KvPrefix) /\ SubSeq(id, 1, Len(KvPrefix)) = KvPrefix
    THEN ParseDecimal(SubSeq(id, Len(KvPrefix) + 1, Len(id)))
    ELSE -1

\* after K calls the counter is K and the policies are numbered 1 .. K
KvNumbered ==
  /\ kvErr = "none"
  /\ kvPolicyCounter = Len(kvPolicies)
  /\ \A i \in 1..Len(kvPolicies) : KvSuffix(kvPolicies[i].id) = i
  /\ \A i, j \in 1..Len(kvPolicies) :
       i # j => kvPolicies[i].id # kvPolicies[j].id

\* a step does not decrease the counter, keeps the policies there are and
\* gives a new one an id none of them has
KvStep ==
  /\ kvPolicyCounter' >= kvPolicyCounter
  /\ Len(kvPolicies') >= Len(kvPolicies)
  /\ SubSeq(kvPolicies', 1, Len(kvPolicies)) = kvPolicies
  /\ \A i \in (Len(kvPolicies) + 1)..Len(kvPolicies') :
       ~KvIdTaken(kvPolicies'[i].id)

\* C21: after K calls of addKeyVaultAccess kvPolicyCounter is K and the
\* policies are keyvault-access-1 .. keyvault-access-K, pairwise distinct;
\* the counter never decreases and no identifier is used again
C21_KvCounter ==
  /\ [](KvNumbered)
  /\ [][KvStep]_vars

\* ten or more calls, for the worker and for the api, have been made
C21_Witness ==
  /\ kvPolicyCounter >= 10
  /\ Len(kvPolicies) = kvPolicyCounter
  /\ \A p \in PrincipalIds :
       \E i \in 1..Len(kvPolicies) : kvPolicies[i].objectId = p

====
